---- MODULE Spec2Model ----
(***************************************************************************)
(* A model of the semver_repo registry engine (src/src/lib.rs): the SemVer *)
(* value, Metadata, Crate, the Repository with its two queries and two     *)
(* mutations, and its persistence: Repository::new loads a snapshot from   *)
(* the store, Drop for Repository saves one.                               *)
(*                                                                         *)
(* Strings that the code inspects (crate names, queries) are sequences of  *)
(* one-character strings, so that lower-casing and substring search are    *)
(* computed.  A HashMap<String, Crate> is a function whose domain is the   *)
(* set of its keys.  A file of the file system is a document: missing,     *)
(* malformed (anything serde_json rejects), or a JSON snapshot of a        *)
(* Repository, whose "crates" object is a set of key/value members.        *)
(***************************************************************************)
EXTENDS Integers, Sequences, FiniteSets, TLC

(***************************************************************************)
(* Bounds of the model.                                                    *)
(***************************************************************************)
\* Largest number of releases, over all crates, the live Repository holds.
MaxReleases == 3

(***************************************************************************)
(* Small input sets.                                                       *)
(***************************************************************************)
\* Crate names the mutations carry: the empty name, and a name with an
\* upper-case letter in the middle of it.
Names == { <<>>, <<"b", "A", "b">> }
\* Names find_exact is asked for: also one that differs from a key in case only.
Lookups == Names \cup { <<"b", "a", "b">> }
\* Substrings find_containing is asked for.
Queries == { <<>>, <<"a">>, <<"A", "B">>, <<"a", "a">> }
\* The store locations (paths) of the file system.
Locations == {"s1", "s2"}
\* The store the process is run with (the REPO_STORE / SEMVER_REPO variable).
REPO_STORE == "s1"

(***************************************************************************)
(* SemVer (lib.rs:15-34).                                                  *)
(***************************************************************************)
SemVer_new(major, minor, patch) ==
    [major |-> major, minor |-> minor, patch |-> patch]

\* The versions requests carry: 0.9.0 < 1.0.0 < 1.0.1 < 1.1.0.
Versions ==
    { SemVer_new(0, 9, 0), SemVer_new(1, 0, 0), SemVer_new(1, 0, 1), SemVer_new(1, 1, 0) }

\* A wrong order: minor compared before major.
SemVer_cmp_MinorFirst(a, b) ==
    IF a.minor # b.minor THEN (IF a.minor < b.minor THEN "Less" ELSE "Greater")
    ELSE IF a.major # b.major THEN (IF a.major < b.major THEN "Less" ELSE "Greater")
    ELSE IF a.patch # b.patch THEN (IF a.patch < b.patch THEN "Less" ELSE "Greater")
    ELSE "Equal"

\* A wrong order: the patch is not compared.
SemVer_cmp_NoPatch(a, b) ==
    IF a.major # b.major THEN (IF a.major < b.major THEN "Less" ELSE "Greater")
    ELSE IF a.minor # b.minor THEN (IF a.minor < b.minor THEN "Less" ELSE "Greater")
    ELSE "Equal"

\* #[derive(PartialOrd, Ord)]: the fields compared in declaration order.
SemVer_cmp(a, b) ==
    IF a.major # b.major THEN (IF a.major < b.major THEN "Less" ELSE "Greater")
    ELSE IF a.minor # b.minor THEN (IF a.minor < b.minor THEN "Less" ELSE "Greater")
    ELSE IF a.patch # b.patch THEN (IF a.patch < b.patch THEN "Less" ELSE "Greater")
    ELSE "Equal"

SemVer_gt(a, b) == SemVer_cmp(a, b) = "Greater"

(***************************************************************************)
(* Metadata and Crate (lib.rs:151-228).                                    *)
(***************************************************************************)
CrateKind == {"Binary", "Library"}

Metadata_new(name, author, kind) ==
    [name |-> name, author |-> author, kind |-> kind]

\* The metadata requests carry: two authors of crates of two kinds.
Metadatas ==
    { Metadata_new(n, "x", "Binary") : n \in Names }
        \cup { Metadata_new(n, "y", "Library") : n \in Names }

Crate_new(metadata) ==
    [metadata |-> metadata, release_history |-> <<>>]

\* Vec::last as an Option: a sequence of no or one element.
last(v) == IF Len(v) = 0 THEN <<>> ELSE <<v[Len(v)]>>

\* A wrong check: a release equal to the last one is accepted too (>= for >).
Crate_add_release_NotStrict(crt, release) ==
    LET l == last(crt.release_history)
        is_newer_hence_valid ==
            IF l = <<>> THEN TRUE ELSE SemVer_cmp(release, l[1]) # "Less"
    IN  IF is_newer_hence_valid
        THEN [crt |-> [crt EXCEPT !.release_history = Append(@, release)], res |-> "Ok"]
        ELSE [crt |-> crt, res |-> "InvalidVersion"]

\* Crate::add_release: the crate afterwards and the result.
Crate_add_release(crt, release) ==
    LET l == last(crt.release_history)
        is_newer_hence_valid == IF l = <<>> THEN TRUE ELSE SemVer_gt(release, l[1])
    IN  IF is_newer_hence_valid
        THEN [crt |-> [crt EXCEPT !.release_history = Append(@, release)], res |-> "Ok"]
        ELSE [crt |-> crt, res |-> "InvalidVersion"]

(***************************************************************************)
(* Strings: str::to_lowercase and str::contains, computed.                 *)
(***************************************************************************)
char_to_lowercase(c) ==
    IF c = "A" THEN "a" ELSE IF c = "B" THEN "b" ELSE c

to_lowercase(s) == [i \in 1..Len(s) |-> char_to_lowercase(s[i])]

\* haystack.contains(needle): needle occurs at some offset of haystack.
contains(haystack, needle) ==
    \E i \in 0..(Len(haystack) - Len(needle)) :
        SubSeq(haystack, i + 1, i + Len(needle)) = needle

(***************************************************************************)
(* Repository (lib.rs:230-300).                                            *)
(***************************************************************************)
\* HashMap::new().
HashMap_new == << >>

\* A wrong fallback: bound to a fixed path, not to the path it was given.
Repository_empty_FixedPath(store) == [crates |-> HashMap_new, store |-> "s2"]

\* The argument of unwrap_or: an empty Repository bound to `store`.
Repository_empty(store) == [crates |-> HashMap_new, store |-> store]

\* HashMap::insert.
HashMap_insert(map, key, value) ==
    [k \in (DOMAIN map) \cup {key} |-> IF k = key THEN value ELSE map[k]]

\* The orders HashMap::iter may visit the keys in: every enumeration of them.
HashMap_iter(map) ==
    LET keys == DOMAIN map
        n == Cardinality(keys)
    IN  { s \in [1..n -> keys] : \A k \in keys : \E i \in 1..n : s[i] = k }

\* A wrong find_exact: the key is compared ignoring case.
Repository_find_exact_IgnoreCase(r, name) ==
    LET keys == { k \in DOMAIN r.crates : to_lowercase(k) = to_lowercase(name) }
    IN  IF keys = {} THEN <<>> ELSE <<r.crates[CHOOSE k \in keys : TRUE]>>

\* Repository::find_exact: Option<&Crate> as a sequence of no or one crate.
Repository_find_exact(r, name) ==
    IF name \in DOMAIN r.crates THEN <<r.crates[name]>> ELSE <<>>

\* A wrong find_containing: a prefix match (starts_with for contains).
Repository_find_containing_Prefix(r, name_part, order) ==
    LET name_part_lower == to_lowercase(name_part)
        Hit(k) == /\ Len(k) >= Len(name_part_lower)
                  /\ SubSeq(to_lowercase(k), 1, Len(name_part_lower)) = name_part_lower
        hits == SelectSeq(order, Hit)
    IN  [i \in 1..Len(hits) |-> r.crates[hits[i]]]

\* Repository::find_containing, the map iterated in the order `order`.
Repository_find_containing(r, name_part, order) ==
    LET name_part_lower == to_lowercase(name_part)
        Hit(k) == contains(to_lowercase(k), name_part_lower)
        hits == SelectSeq(order, Hit)
    IN  [i \in 1..Len(hits) |-> r.crates[hits[i]]]

\* A wrong add_crate: no check of the name, the entry is replaced.
Repository_add_crate_Overwrite(r, metadata, version) ==
    LET crt == [Crate_new(metadata) EXCEPT !.release_history = Append(@, version)]
    IN  [repo |-> [r EXCEPT !.crates = HashMap_insert(@, crt.metadata.name, crt)],
         res |-> "Ok"]

\* A wrong add_crate: the crate is inserted without its initial release.
Repository_add_crate_NoRelease(r, metadata, version) ==
    IF metadata.name \in DOMAIN r.crates
    THEN [repo |-> r, res |-> "AlreadyExists"]
    ELSE LET crt == Crate_new(metadata)
         IN  [repo |-> [r EXCEPT !.crates = HashMap_insert(@, crt.metadata.name, crt)],
              res |-> "Ok"]

\* Repository::add_crate: the repository afterwards and the result.
Repository_add_crate(r, metadata, version) ==
    IF metadata.name \in DOMAIN r.crates
    THEN [repo |-> r, res |-> "AlreadyExists"]
    ELSE LET crt == [Crate_new(metadata) EXCEPT !.release_history = Append(@, version)]
         IN  [repo |-> [r EXCEPT !.crates = HashMap_insert(@, crt.metadata.name, crt)],
              res |-> "Ok"]

\* A wrong add_release: the crate is looked up ignoring case.
Repository_add_release_IgnoreCase(r, name, version) ==
    LET keys == { k \in DOMAIN r.crates : to_lowercase(k) = to_lowercase(name) }
    IN  IF keys = {}
        THEN [repo |-> r, res |-> "NotFound"]
        ELSE LET key == CHOOSE k \in keys : TRUE
                 out == Crate_add_release(r.crates[key], version)
             IN  [repo |-> [r EXCEPT !.crates[key] = out.crt], res |-> out.res]

\* Repository::add_release: the repository afterwards and the result.
Repository_add_release(r, name, version) ==
    IF name \notin DOMAIN r.crates
    THEN [repo |-> r, res |-> "NotFound"]
    ELSE LET out == Crate_add_release(r.crates[name], version)
         IN  [repo |-> [r EXCEPT !.crates[name] = out.crt], res |-> out.res]

(***************************************************************************)
(* Persistence: the documents of the file system, serde_json, Drop.        *)
(***************************************************************************)
\* No file at the location.
Missing == [kind |-> "missing", members |-> {}, store |-> ""]
\* A file File::open fails on (no permission to read it).
Unreadable == [kind |-> "unreadable", members |-> {}, store |-> ""]
\* A file serde_json does not read as a Repository (also a truncated one).
Malformed == [kind |-> "malformed", members |-> {}, store |-> ""]

\* A wrong serialization: the release histories written newest first.
to_writer_Reversed(r) ==
    LET Rev(h) == [i \in 1..Len(h) |-> h[Len(h) + 1 - i]]
    IN  [kind |-> "json",
         members |-> { [key |-> k,
                        value |-> [r.crates[k] EXCEPT !.release_history = Rev(@)]] :
                       k \in DOMAIN r.crates },
         store |-> r.store]

\* serde_json::to_writer of a Repository (#[derive(Serialize)], lib.rs:230-234):
\* the "crates" object, one member per key, and the "store" path.
to_writer(r) ==
    [kind |-> "json",
     members |-> { [key |-> k, value |-> r.crates[k]] : k \in DOMAIN r.crates },
     store |-> r.store]

\* File::open(&store) succeeds.
File_open(doc) == doc.kind \notin {"missing", "unreadable"}

\* serde_json::from_reader(f).ok() as an Option<Repository>: the members of the
\* "crates" object become the entries of the map, the "store" path the store.
from_reader(doc) ==
    IF doc.kind = "json"
    THEN << [crates |-> [k \in { m.key : m \in doc.members } |->
                            (CHOOSE m \in doc.members : m.key = k).value],
             store |-> doc.store] >>
    ELSE << >>

\* What the environment lets a save do: File::create fails, the write fails
\* after File::create truncated the file, or both succeed.
SaveOutcomes == {"ok", "create_err", "write_err"}

\* Drop for Repository: the file system after the save of r.
Repository_drop(files, r, outcome) ==
    IF outcome = "create_err" THEN files
    ELSE IF outcome = "write_err" THEN [files EXCEPT ![r.store] = Malformed]
    ELSE [files EXCEPT ![r.store] = to_writer(r)]

\* A wrong report of a failed save: the error is unwrapped, which panics.
Repository_drop_report_Unwrap(outcome) ==
    IF outcome = "ok"
    THEN [stderr |-> <<>>, raised |-> FALSE]
    ELSE [stderr |-> <<>>, raised |-> TRUE]

\* Drop for Repository: what a save prints to stderr (`if let Err(e) = res
\* { eprintln!(..) }`), and whether the destructor raises (it never does).
Repository_drop_report(outcome) ==
    IF outcome = "ok"
    THEN [stderr |-> <<>>, raised |-> FALSE]
    ELSE [stderr |-> <<"could not save repository">>, raised |-> FALSE]

\* The write a save adds to the log of writes: none when File::create failed.
WriteLog(log, by, r, outcome) ==
    IF outcome = "create_err" THEN log ELSE Append(log, [by |-> by, loc |-> r.store])

(***************************************************************************)
(* The state.                                                              *)
(***************************************************************************)
VARIABLES
    fs,         \* the file system: the document at each location
    alive,      \* a Repository is live (constructed, not yet torn down)
    repo,       \* the live Repository; after teardown, the value torn down
    op,         \* the operation that ran last
    ret,        \* what it returned: the result, and the crates a query found
    io,         \* what the environment did to its File::open and its save
    writes,     \* the writes to the file system since construction began
    stderr,     \* the lines the last step printed to stderr
    pc,         \* where the server's main is ("lib": the library used directly)
    response,   \* the envelope the server answered its last connection with
    calc        \* the last call of a pure function: its input and its output

vars == <<fs, alive, repo, op, ret, io, writes, stderr, pc, response, calc>>

\* What the library's operations leave alone.
aux == <<pc, response, calc>>

NoIo == [open |-> "-", save |-> "-"]
NoResponse ==
    [json |-> [key |-> "-", error |-> <<>>, payload |-> [json |-> "-", items |-> <<>>]],
     request |-> [readable |-> FALSE, variant |-> "-", name |-> <<>>,
                  metadata |-> <<>>, version |-> <<>>],
     sent |-> FALSE]
NoCalc == [fn |-> "-", input |-> <<>>, output |-> <<>>]
Returned(res, found) == [res |-> res, found |-> found]

\* The number of releases a map of crates holds.
RECURSIVE Releases(_)
Releases(crates) ==
    IF DOMAIN crates = {} THEN 0
    ELSE LET k == CHOOSE k \in DOMAIN crates : TRUE
         IN  Len(crates[k].release_history)
             + Releases([j \in (DOMAIN crates) \ {k} |-> crates[j]])

Init ==
    /\ \E doc \in {Missing, Unreadable, Malformed} :
          fs = [l \in Locations |-> IF l = REPO_STORE THEN doc ELSE Missing]
    /\ alive = FALSE
    /\ repo = Repository_empty(REPO_STORE)
    /\ op = "init"
    /\ ret = Returned("-", <<>>)
    /\ io = NoIo
    /\ writes = <<>>
    /\ stderr = <<>>
    /\ pc = "lib"
    /\ response = NoResponse
    /\ calc = NoCalc

(***************************************************************************)
(* Repository::new(store) (lib.rs:247-257).  The fallback Repository is    *)
(* built before unwrap_or is called; when the snapshot was read, unwrap_or *)
(* returns the snapshot and the fallback value is dropped, which runs      *)
(* Drop for Repository on it.                                              *)
(***************************************************************************)
Repository_new(store, outcome) ==
    LET maybe_contents ==
            IF File_open(fs[store]) THEN from_reader(fs[store]) ELSE <<>>
        fallback == Repository_empty(store)
    IN  /\ ~alive
        /\ alive' = TRUE
        /\ op' = "new"
        /\ IF maybe_contents # <<>>
           THEN /\ repo' = maybe_contents[1]
                /\ fs' = Repository_drop(fs, fallback, outcome)
                /\ writes' = WriteLog(<<>>, "new", fallback, outcome)
                /\ stderr' = Repository_drop_report(outcome).stderr
                /\ ret' = Returned(IF Repository_drop_report(outcome).raised
                                   THEN "panic" ELSE "Ok", <<>>)
                /\ io' = [open |-> "ok", save |-> outcome]
           ELSE /\ repo' = fallback
                /\ fs' = fs
                /\ writes' = <<>>
                /\ stderr' = <<>>
                /\ ret' = Returned("Ok", <<>>)
                /\ outcome = "ok"
                /\ io' = [open |-> IF File_open(fs[store]) THEN "ok" ELSE "err",
                          save |-> "-"]

New ==
    /\ \E outcome \in SaveOutcomes : Repository_new(REPO_STORE, outcome)
    /\ UNCHANGED aux

(***************************************************************************)
(* The four operations on the live Repository.                             *)
(***************************************************************************)
find_exact(name) ==
    /\ alive
    /\ op' = "find_exact"
    /\ ret' = Returned("Ok", Repository_find_exact(repo, name))
    /\ io' = NoIo
    /\ stderr' = <<>>
    /\ UNCHANGED <<fs, alive, repo, writes>>

find_containing(name_part) ==
    /\ alive
    /\ \E order \in HashMap_iter(repo.crates) :
          ret' = Returned("Ok", Repository_find_containing(repo, name_part, order))
    /\ op' = "find_containing"
    /\ io' = NoIo
    /\ stderr' = <<>>
    /\ UNCHANGED <<fs, alive, repo, writes>>

add_crate(metadata, version) ==
    LET out == Repository_add_crate(repo, metadata, version)
    IN  /\ alive
        /\ Releases(out.repo.crates) <= MaxReleases
        /\ repo' = out.repo
        /\ op' = "add_crate"
        /\ ret' = Returned(out.res, <<>>)
        /\ io' = NoIo
        /\ stderr' = <<>>
        /\ UNCHANGED <<fs, alive, writes>>

add_release(name, version) ==
    LET out == Repository_add_release(repo, name, version)
    IN  /\ alive
        /\ Releases(out.repo.crates) <= MaxReleases
        /\ repo' = out.repo
        /\ op' = "add_release"
        /\ ret' = Returned(out.res, <<>>)
        /\ io' = NoIo
        /\ stderr' = <<>>
        /\ UNCHANGED <<fs, alive, writes>>

FindExact ==
    /\ \E name \in Lookups : find_exact(name)
    /\ UNCHANGED aux

FindContaining ==
    /\ \E name_part \in Queries : find_containing(name_part)
    /\ UNCHANGED aux

AddCrate ==
    /\ \E metadata \in Metadatas, version \in Versions : add_crate(metadata, version)
    /\ UNCHANGED aux

AddRelease ==
    /\ \E name \in Lookups, version \in Versions : add_release(name, version)
    /\ UNCHANGED aux

(***************************************************************************)
(* Teardown: the owning scope ends and Drop for Repository saves           *)
(* (lib.rs:302-313).  A failure is printed, nothing is returned.           *)
(***************************************************************************)
drop(outcome) ==
    /\ alive
    /\ alive' = FALSE
    /\ fs' = Repository_drop(fs, repo, outcome)
    /\ writes' = WriteLog(writes, "drop", repo, outcome)
    /\ op' = "drop"
    /\ stderr' = Repository_drop_report(outcome).stderr
    /\ ret' = Returned(IF Repository_drop_report(outcome).raised THEN "panic" ELSE "-",
                       <<>>)
    /\ io' = [open |-> "-", save |-> outcome]
    /\ UNCHANGED repo

Drop ==
    /\ \E outcome \in SaveOutcomes : drop(outcome)
    /\ UNCHANGED aux

\* The process is killed: the Repository is gone and no destructor runs.
kill ==
    /\ alive
    /\ alive' = FALSE
    /\ op' = "kill"
    /\ ret' = Returned("-", <<>>)
    /\ io' = NoIo
    /\ stderr' = <<>>
    /\ UNCHANGED <<fs, repo, writes>>

Kill ==
    /\ kill
    /\ UNCHANGED aux

Next ==
    \/ New
    \/ FindExact
    \/ FindContaining
    \/ AddCrate
    \/ AddRelease
    \/ Drop
    \/ Kill

Spec == Init /\ [][Next]_vars

(***************************************************************************)
(* The same program started on a store that some other writer left: a      *)
(* document serde_json reads as a Repository, whatever it says.            *)
(***************************************************************************)
ForeignCrates ==
    { Crate_new(Metadata_new(<<>>, "x", "Binary")),
      [Crate_new(Metadata_new(<<>>, "y", "Library"))
          EXCEPT !.release_history = <<SemVer_new(1, 0, 0), SemVer_new(0, 9, 0)>>],
      [Crate_new(Metadata_new(<<"b", "A", "b">>, "x", "Binary"))
          EXCEPT !.release_history = <<SemVer_new(1, 0, 0)>>] }

ForeignDocs ==
    { [kind |-> "json", members |-> {[key |-> k, value |-> c]}, store |-> REPO_STORE] :
        k \in Names, c \in ForeignCrates }

InitForeign ==
    /\ \E doc \in ForeignDocs :
          fs = [l \in Locations |-> IF l = REPO_STORE THEN doc ELSE Missing]
    /\ alive = FALSE
    /\ repo = Repository_empty(REPO_STORE)
    /\ op = "init"
    /\ ret = Returned("-", <<>>)
    /\ io = NoIo
    /\ writes = <<>>
    /\ stderr = <<>>
    /\ pc = "lib"
    /\ response = NoResponse
    /\ calc = NoCalc

SpecForeign == InitForeign /\ [][Next]_vars

(***************************************************************************)
(* The same program started on a store whose snapshot was written under    *)
(* another path (the file was moved or copied to where it is now): the     *)
(* "store" it records is not the location it is read from.                 *)
(***************************************************************************)
MovedDocs ==
    { to_writer(Repository_empty("s2")),
      to_writer([Repository_empty("s2") EXCEPT !.crates =
          HashMap_insert(@, <<"b", "A", "b">>,
              [Crate_new(Metadata_new(<<"b", "A", "b">>, "x", "Binary"))
                  EXCEPT !.release_history = <<SemVer_new(1, 0, 0)>>])]) }

InitMoved ==
    /\ \E doc \in MovedDocs :
          fs = [l \in Locations |-> IF l = REPO_STORE THEN doc ELSE Missing]
    /\ alive = FALSE
    /\ repo = Repository_empty(REPO_STORE)
    /\ op = "init"
    /\ ret = Returned("-", <<>>)
    /\ io = NoIo
    /\ writes = <<>>
    /\ stderr = <<>>
    /\ pc = "lib"
    /\ response = NoResponse
    /\ calc = NoCalc

\* The mutations with fewer inputs: one author per name, two versions.
MovedAddCrate ==
    /\ \E name \in Names, version \in { SemVer_new(1, 0, 0), SemVer_new(1, 0, 1) } :
          add_crate(Metadata_new(name, "x", "Binary"), version)
    /\ UNCHANGED aux

MovedAddRelease ==
    /\ \E name \in Names, version \in { SemVer_new(1, 0, 0), SemVer_new(1, 0, 1) } :
          add_release(name, version)
    /\ UNCHANGED aux

NextMoved ==
    \/ New
    \/ FindExact
    \/ FindContaining
    \/ MovedAddCrate
    \/ MovedAddRelease
    \/ Drop
    \/ Kill

SpecMoved == InitMoved /\ [][NextMoved]_vars

(***************************************************************************)
(* The pure functions of the library, each applied once to an input drawn  *)
(* from a small set: Crate's Hash / PartialEq, SemVer's order, and the     *)
(* conversions between SemVer and text.                                    *)
(***************************************************************************)
\* Largest major, minor or patch of the versions whose order is compared.
MaxPart == 2
\* Largest number of '.'-separated segments of the texts that are parsed.
MaxSegments == 4

\* The library's own variables, which a pure function leaves alone.
lib == <<fs, alive, repo, op, ret, io, writes, stderr>>

\* A wrong equality: the derived one, which compares every field.
Crate_eq_Structural(a, b) == a = b

\* impl PartialEq for Crate: the names compared.
Crate_eq(a, b) == a.metadata.name = b.metadata.name

\* impl Hash for Crate: what is fed to the hasher.
Crate_hash(c) == <<c.metadata.name>>

\* HashSet::insert: the value is added unless the set holds one that hashes
\* the same and is equal to it.
HashSet_insert(set, value) ==
    IF \E e \in set : Crate_hash(e) = Crate_hash(value) /\ Crate_eq(e, value)
    THEN set
    ELSE set \cup {value}

\* The crates that are compared: every metadata with three histories.
PureCrates ==
    { [metadata |-> m, release_history |-> h] :
        m \in Metadatas,
        h \in { <<>>, <<SemVer_new(1, 0, 0)>>, <<SemVer_new(1, 0, 0), SemVer_new(1, 0, 1)>> } }

\* #[derive(PartialEq, Eq)] for SemVer: field by field.
SemVer_eq(a, b) == a.major = b.major /\ a.minor = b.minor /\ a.patch = b.patch

\* The versions that are compared.
PureVersions ==
    { SemVer_new(x, y, z) : x \in 0..MaxPart, y \in 0..MaxPart, z \in 0..MaxPart }

\* The largest u16.
U16Max == 65535

Digits == <<"0", "1", "2", "3", "4", "5", "6", "7", "8", "9">>
IsDigit(c) == \E d \in 1..10 : Digits[d] = c
DigitValue(c) == (CHOOSE d \in 1..10 : Digits[d] = c) - 1

ParseIntOk(n) == [ok |-> TRUE, value |-> n, error |-> "-"]
ParseIntErr(kind) == [ok |-> FALSE, value |-> 0, error |-> kind]

\* The digits of str::parse::<u16> accumulated left to right, with the
\* overflow check at each step.
RECURSIVE u16_accumulate(_, _)
u16_accumulate(digits, acc) ==
    IF digits = <<>> THEN ParseIntOk(acc)
    ELSE IF ~IsDigit(digits[1]) THEN ParseIntErr("InvalidDigit")
    ELSE LET n == acc * 10 + DigitValue(digits[1])
         IN  IF n > U16Max THEN ParseIntErr("PosOverflow")
             ELSE u16_accumulate(Tail(digits), n)

\* str::parse::<u16>: the empty string is an error, a lone sign is an
\* error, a leading '+' is skipped, a '-' is an invalid digit.
u16_from_str(src) ==
    IF src = <<>> THEN ParseIntErr("Empty")
    ELSE IF Len(src) = 1 /\ src[1] \in {"+", "-"} THEN ParseIntErr("InvalidDigit")
    ELSE IF src[1] = "+" THEN u16_accumulate(Tail(src), 0)
    ELSE u16_accumulate(src, 0)

\* u16's Display: the decimal digits, no sign, no leading zero.
RECURSIVE u16_to_string(_)
u16_to_string(n) ==
    IF n < 10 THEN <<Digits[n + 1]>>
    ELSE u16_to_string(n \div 10) \o <<Digits[(n % 10) + 1]>>

\* s.split("."): the segments between the dots, empty ones included.
RECURSIVE str_split(_)
str_split(s) ==
    IF \A i \in 1..Len(s) : s[i] # "."
    THEN <<s>>
    ELSE LET i == CHOOSE i \in 1..Len(s) : s[i] = "." /\ \A j \in 1..(i - 1) : s[j] # "."
         IN  <<SubSeq(s, 1, i - 1)>> \o str_split(SubSeq(s, i + 1, Len(s)))

\* A wrong rendering: the parts in the reverse order.
SemVer_fmt_Reversed(v) ==
    u16_to_string(v.patch) \o <<".">> \o u16_to_string(v.minor)
        \o <<".">> \o u16_to_string(v.major)

\* impl Display for SemVer: "{}.{}.{}".
SemVer_fmt(v) ==
    u16_to_string(v.major) \o <<".">> \o u16_to_string(v.minor)
        \o <<".">> \o u16_to_string(v.patch)

ParseOk(v) == [res |-> "Ok", value |-> <<v>>, error |-> "-"]
ParseErr(e) == [res |-> "Err", value |-> <<>>, error |-> e]
Panicked == [res |-> "panic", value |-> <<>>, error |-> "-"]

\* impl FromStr for SemVer.
SemVer_from_str(s) ==
    LET parts == str_split(s)
        num_parts == Len(parts)
    IN  IF num_parts # 3 THEN ParseErr("WrongNumberOfParts")
        ELSE LET major == u16_from_str(parts[1])
                 minor == u16_from_str(parts[2])
                 patch == u16_from_str(parts[3])
             IN  IF ~major.ok THEN ParseErr("ParseInt")
                 ELSE IF ~minor.ok THEN ParseErr("ParseInt")
                 ELSE IF ~patch.ok THEN ParseErr("ParseInt")
                 ELSE ParseOk(SemVer_new(major.value, minor.value, patch.value))

\* impl TryFrom<String> for SemVer.
SemVer_try_from(value) == SemVer_from_str(value)

\* impl From<&str> for SemVer: filter_map keeps the segments that parse,
\* and the assertion panics unless three are left.
SemVer_from(s) ==
    LET parsed(item) == u16_from_str(item).ok
        kept == SelectSeq(str_split(s), parsed)
        vs == [i \in 1..Len(kept) |-> u16_from_str(kept[i]).value]
    IN  IF Len(vs) # 3 THEN Panicked
        ELSE ParseOk([major |-> vs[1], minor |-> vs[2], patch |-> vs[3]])

\* The segments texts are made of: empty, a number, a letter, a number with
\* a sign, with a leading zero, and one past the largest u16.
Segments ==
    { <<>>, <<"1">>, <<"x">>, <<"+", "2">>, <<"-", "1">>, <<"0", "7">>,
      <<"6", "5", "5", "3", "6">> }

SegmentLists == UNION { [1..n -> Segments] : n \in 1..MaxSegments }

RECURSIVE Join(_)
Join(segs) ==
    IF Len(segs) = 1 THEN segs[1]
    ELSE segs[1] \o <<".">> \o Join(Tail(segs))

\* The versions that are rendered and parsed back.
RoundTripVersions ==
    { SemVer_new(x, y, z) : x \in {0, 7, 10, U16Max}, y \in {0, 7, 10, U16Max},
                            z \in {0, 7, 10, U16Max} }

InitPure ==
    /\ fs = [l \in Locations |-> Missing]
    /\ alive = FALSE
    /\ repo = Repository_empty(REPO_STORE)
    /\ op = "init"
    /\ ret = Returned("-", <<>>)
    /\ io = NoIo
    /\ writes = <<>>
    /\ stderr = <<>>
    /\ pc = "pure"
    /\ response = NoResponse
    /\ calc = NoCalc

\* Two crates are compared, hashed and inserted into one HashSet.
CompareCrates ==
    /\ pc = "pure"
    /\ calc.fn = "-"
    /\ \E a \in PureCrates, b \in PureCrates :
          calc' = [fn |-> "Crate_eq",
                   input |-> <<a, b>>,
                   output |-> [eq |-> Crate_eq(a, b),
                               hash |-> <<Crate_hash(a), Crate_hash(b)>>,
                               set |-> HashSet_insert(HashSet_insert({}, a), b)]]
    /\ UNCHANGED <<lib, pc, response>>

\* Three versions are compared with each other.
CompareVersions ==
    /\ pc = "pure"
    /\ calc.fn = "-"
    /\ \E a \in PureVersions, b \in PureVersions, c \in PureVersions :
          calc' = [fn |-> "SemVer_cmp",
                   input |-> <<a, b, c>>,
                   output |-> [ab |-> SemVer_cmp(a, b), ba |-> SemVer_cmp(b, a),
                               bc |-> SemVer_cmp(b, c), ac |-> SemVer_cmp(a, c),
                               eq |-> SemVer_eq(a, b)]]
    /\ UNCHANGED <<lib, pc, response>>

\* s.parse::<SemVer>() of a text.
FromStr ==
    /\ pc = "pure"
    /\ calc.fn = "-"
    /\ \E segs \in SegmentLists :
          calc' = [fn |-> "from_str", input |-> segs, output |-> SemVer_from_str(Join(segs))]
    /\ UNCHANGED <<lib, pc, response>>

\* SemVer::try_from(String) of a text.
TryFrom ==
    /\ pc = "pure"
    /\ calc.fn = "-"
    /\ \E segs \in SegmentLists :
          calc' = [fn |-> "try_from", input |-> segs, output |-> SemVer_try_from(Join(segs))]
    /\ UNCHANGED <<lib, pc, response>>

\* SemVer::from(&str) / s.into() of a text.
From ==
    /\ pc = "pure"
    /\ calc.fn = "-"
    /\ \E segs \in SegmentLists :
          calc' = [fn |-> "from", input |-> segs, output |-> SemVer_from(Join(segs))]
    /\ UNCHANGED <<lib, pc, response>>

\* v.to_string().parse::<SemVer>() of a version.
FormatThenParse ==
    /\ pc = "pure"
    /\ calc.fn = "-"
    /\ \E v \in RoundTripVersions :
          calc' = [fn |-> "fmt",
                   input |-> v,
                   output |-> [text |-> SemVer_fmt(v),
                               parsed |-> SemVer_from_str(SemVer_fmt(v))]]
    /\ UNCHANGED <<lib, pc, response>>

NextPure ==
    \/ CompareCrates
    \/ CompareVersions
    \/ FromStr
    \/ TryFrom
    \/ From
    \/ FormatThenParse

SpecPure == InitPure /\ [][NextPure]_vars

(***************************************************************************)
(* The server (src/src/bin/server.rs): main builds the Repository, binds   *)
(* the listener and answers one connection after the other; handle reads   *)
(* a request from the stream, dispatches it and renders the answer.        *)
(***************************************************************************)
\* The versions and the metadata requests to the server carry.
ServerVersions == { SemVer_new(1, 0, 0), SemVer_new(1, 0, 1) }

\* What a client wrote to the stream: bytes read_to_string fails on, or a
\* JSON text naming a variant with its arguments (absent ones are <<>>).
Sent(readable, variant, name, metadata, version) ==
    [readable |-> readable, variant |-> variant, name |-> name,
     metadata |-> metadata, version |-> version]

NoWire == Sent(FALSE, "-", <<>>, <<>>, <<>>)

Wire ==
    { Sent(TRUE, "FindExact", n, <<>>, <<>>) : n \in Lookups }
        \cup { Sent(TRUE, "FindAllContaining", q, <<>>, <<>>) : q \in Queries }
        \cup { Sent(TRUE, "AddCrate", <<>>, <<m>>, <<v>>) : m \in Metadatas, v \in ServerVersions }
        \cup { Sent(TRUE, "AddRelease", n, <<>>, <<v>>) : n \in Lookups, v \in ServerVersions }
        \cup { Sent(FALSE, "FindExact", <<"b", "A", "b">>, <<>>, <<>>),
               Sent(TRUE, "Delete", <<"b", "A", "b">>, <<>>, <<>>),
               Sent(TRUE, "AddCrate", <<>>, <<Metadata_new(<<"b", "A", "b">>, "x", "Binary")>>, <<>>) }

\* serde_json::from_str::<ApiRequest>: the variant is one of the four and
\* its arguments are all there.
ApiRequest_from_str(wire) ==
    CASE wire.variant \in {"FindExact", "FindAllContaining"} -> TRUE
      [] wire.variant = "AddCrate" -> Len(wire.metadata) = 1 /\ Len(wire.version) = 1
      [] wire.variant = "AddRelease" -> Len(wire.version) = 1
      [] OTHER -> FALSE

\* parse_request: the request, or why there is none.
parse_request(wire) ==
    IF ~wire.readable THEN [res |-> "Err", err |-> "Unreadable"]
    ELSE IF ~ApiRequest_from_str(wire) THEN [res |-> "Err", err |-> "Garbage"]
    ELSE [res |-> "Ok", err |-> "-"]

\* Result values: Ok of a unit, an Option or a Vec of crates, or Err.
ResultOk(kind, value) == [res |-> "Ok", kind |-> kind, value |-> value, err |-> <<>>]
ResultErr(err) == [res |-> "Err", kind |-> "-", value |-> <<>>, err |-> err]

\* #[from] RepoError for ApiError.
ApiError_from(e) == <<"Repo", e>>

\* JsonResponse for Result<T, ApiError>: serde_json::to_string of the
\* envelope; unit and None are both null, a Vec is an array.
to_json_api(result) ==
    IF result.res = "Ok"
    THEN [key |-> "Ok", error |-> <<>>,
          payload |-> [json |-> CASE result.kind = "vec" -> "array"
                                  [] result.kind = "option" /\ result.value # <<>> -> "object"
                                  [] OTHER -> "null",
                       items |-> result.value]]
    ELSE [key |-> "Err", error |-> result.err, payload |-> [json |-> "-", items |-> <<>>]]

\* fn internal_error.
internal_error == to_json_api(ResultErr(<<"Internal">>))

\* A wrong rendering of a Registry result: every error becomes Internal.
to_json_repo_Internal(result) ==
    IF result.res = "Ok" THEN to_json_api(result) ELSE internal_error

\* JsonResponse for Result<T, RepoError>: the error wrapped into ApiError.
to_json_repo(result) ==
    IF result.res = "Ok" THEN to_json_api(result)
    ELSE to_json_api(ResultErr(ApiError_from(result.err[1])))

\* The answer to a connection: the envelope, the request it answers and
\* whether write! delivered it.
Answer(json, wire, write_ok) == [json |-> json, request |-> wire, sent |-> write_ok]

InitServer ==
    /\ \E doc \in { Missing, Malformed,
                    to_writer([Repository_empty(REPO_STORE) EXCEPT !.crates =
                        HashMap_insert(@, <<"b", "A", "b">>,
                            [Crate_new(Metadata_new(<<"b", "A", "b">>, "x", "Binary"))
                                EXCEPT !.release_history = <<SemVer_new(1, 0, 0)>>])]) } :
          fs = [l \in Locations |-> IF l = REPO_STORE THEN doc ELSE Missing]
    /\ alive = FALSE
    /\ repo = Repository_empty(REPO_STORE)
    /\ op = "init"
    /\ ret = Returned("-", <<>>)
    /\ io = NoIo
    /\ writes = <<>>
    /\ stderr = <<>>
    /\ pc = "start"
    /\ response = NoResponse
    /\ calc = NoCalc

\* main up to the bind: the process is started (again) and builds its
\* Repository from the store.
ServerStart ==
    /\ pc \in {"start", "exited"}
    /\ \E outcome \in SaveOutcomes : Repository_new(REPO_STORE, outcome)
    /\ pc' = "bind"
    /\ response' = NoResponse
    /\ UNCHANGED calc

\* TcpListener::bind succeeded: main enters the loop over the connections.
BindOk ==
    /\ pc = "bind"
    /\ pc' = "serving"
    /\ UNCHANGED <<lib, response, calc>>

\* TcpListener::bind failed: `?` returns from main, which drops the Repository.
BindErr ==
    /\ pc = "bind"
    /\ \E outcome \in SaveOutcomes : drop(outcome)
    /\ pc' = "exited"
    /\ UNCHANGED <<response, calc>>

\* A connection that failed to be accepted: logged, the loop continues.
ConnectionError ==
    /\ pc = "serving"
    /\ op' = "connection_error"
    /\ ret' = Returned("-", <<>>)
    /\ io' = NoIo
    /\ stderr' = <<>>
    /\ UNCHANGED <<fs, alive, repo, writes, pc, response, calc>>

\* handle, and the write! of its answer to the stream.
handle(wire, write_ok) ==
    IF parse_request(wire).res = "Err"
    THEN /\ op' = "parse_request"
         /\ ret' = Returned("Err", <<>>)
         /\ io' = NoIo
         /\ stderr' = <<>>
         /\ UNCHANGED <<fs, alive, repo, writes>>
         /\ response' = Answer(internal_error, wire, write_ok)
    ELSE CASE wire.variant = "FindExact" ->
                /\ find_exact(wire.name)
                /\ response' = Answer(to_json_api(ResultOk("option", ret'.found)),
                                      wire, write_ok)
           [] wire.variant = "FindAllContaining" ->
                /\ find_containing(wire.name)
                /\ response' = Answer(to_json_api(ResultOk("vec", ret'.found)),
                                      wire, write_ok)
           [] wire.variant = "AddCrate" ->
                /\ add_crate(wire.metadata[1], wire.version[1])
                /\ response' = Answer(to_json_repo(IF ret'.res = "Ok"
                                                   THEN ResultOk("unit", <<>>)
                                                   ELSE ResultErr(<<ret'.res>>)),
                                      wire, write_ok)
           [] wire.variant = "AddRelease" ->
                /\ add_release(wire.name, wire.version[1])
                /\ response' = Answer(to_json_repo(IF ret'.res = "Ok"
                                                   THEN ResultOk("unit", <<>>)
                                                   ELSE ResultErr(<<ret'.res>>)),
                                      wire, write_ok)

Handle ==
    /\ pc = "serving"
    /\ \E wire \in Wire, write_ok \in BOOLEAN : handle(wire, write_ok)
    /\ UNCHANGED <<pc, calc>>

\* The process is ended by a signal: the loop over the connections has no
\* other end, and no destructor runs.
ServerKill ==
    /\ pc \in {"bind", "serving"}
    /\ kill
    /\ pc' = "exited"
    /\ UNCHANGED <<response, calc>>

NextServer ==
    \/ ServerStart
    \/ BindOk
    \/ BindErr
    \/ ConnectionError
    \/ Handle
    \/ ServerKill

SpecServer == InitServer /\ [][NextServer]_vars

(***************************************************************************)
(* The properties.                                                         *)
(***************************************************************************)
\* The SemVer order of the specification: lexicographic on
\* (major, minor, patch), major first.
Precedes(a, b) ==
    \/ a.major < b.major
    \/ a.major = b.major /\ a.minor < b.minor
    \/ a.major = b.major /\ a.minor = b.minor /\ a.patch < b.patch

StrictlyIncreasing(h) ==
    \A i \in 1..(Len(h) - 1) : Precedes(h[i], h[i + 1])

\* C1: starting from an empty Repository, through any add_crate / add_release
\* calls and any save / reload cycles on the store, the release history of
\* every crate is strictly increasing in the SemVer order.
C1_HistoryStrictlyIncreasing ==
    \A k \in DOMAIN repo.crates : StrictlyIncreasing(repo.crates[k].release_history)

\* A Repository reloaded from the store holds a crate with two releases.
C1_Witness ==
    /\ alive
    /\ op = "new"
    /\ \E k \in DOMAIN repo.crates : Len(repo.crates[k].release_history) >= 2

\* C2: add_release(name, version) on an existing name appends exactly
\* `version` to that crate's history and returns Ok iff the history is empty
\* or version is strictly greater than its last entry; otherwise it returns
\* InvalidVersion and changes nothing.  Other crates, every crate's metadata
\* and the store are unchanged either way.
C2_AddReleaseIffNewer ==
    [][ \A name \in Lookups, version \in Versions :
          (/\ op' = "add_release"
           /\ name \in DOMAIN repo.crates
           /\ add_release(name, version)) =>
             LET h == repo.crates[name].release_history
                 newer == h = <<>> \/ Precedes(h[Len(h)], version)
             IN  IF newer
                 THEN /\ ret'.res = "Ok"
                      /\ repo' = [repo EXCEPT
                                    !.crates[name].release_history = Append(h, version)]
                 ELSE /\ ret'.res = "InvalidVersion"
                      /\ repo' = repo ]_vars

\* add_release was refused on a Repository of two crates.
C2_Witness ==
    /\ alive
    /\ op = "add_release"
    /\ ret.res = "InvalidVersion"
    /\ Cardinality(DOMAIN repo.crates) = 2

\* C3: add_crate with a name that already keys an entry returns
\* AlreadyExists, whatever the author, kind or version, and leaves the
\* Repository unchanged.
C3_AddCrateAlreadyExists ==
    [][ \A metadata \in Metadatas, version \in Versions :
          (/\ op' = "add_crate"
           /\ metadata.name \in DOMAIN repo.crates
           /\ add_crate(metadata, version)) =>
             /\ ret'.res = "AlreadyExists"
             /\ repo' = repo ]_vars

\* add_crate was refused.
C3_Witness ==
    /\ alive
    /\ op = "add_crate"
    /\ ret.res = "AlreadyExists"

\* C4: every key of the crates mapping equals the metadata.name of the crate
\* it maps to, also right after construction from a store that deserializes.
C4_KeyIsName ==
    alive => \A k \in DOMAIN repo.crates : repo.crates[k].metadata.name = k

\* C5: every crate a query returns has a non-empty release history, however
\* the Repository was obtained.
C5_FoundHasRelease ==
    (alive /\ op \in {"find_exact", "find_containing"}) =>
        \A i \in 1..Len(ret.found) : ret.found[i].release_history # <<>>

\* C6: over the lifetime of a Repository, from the start of its construction
\* to its teardown, the store is written exactly once, by the save at
\* teardown: nothing is written during construction or by an operation.
C6_WrittenOnceAtTeardown ==
    /\ alive => writes = <<>>
    /\ (op = "drop" /\ io.save = "ok") => writes = <<[by |-> "drop", loc |-> REPO_STORE]>>

\* C7: tearing a Repository down (the save succeeds) and constructing one from
\* the same store yields the same names, and for each name the same metadata
\* and the same release history in the same order.
C7_SaveLoadRoundTrip ==
    [][ \A outcome \in SaveOutcomes :
          (/\ op = "drop"
           /\ io.save = "ok"
           /\ Repository_new(repo.store, outcome)) =>
             /\ DOMAIN repo'.crates = DOMAIN repo.crates
             /\ \A k \in DOMAIN repo.crates :
                   /\ repo'.crates[k].metadata = repo.crates[k].metadata
                   /\ repo'.crates[k].release_history = repo.crates[k].release_history ]_vars

\* A Repository of two crates, one with two releases, was read back from the
\* store.
C7_Witness ==
    /\ alive
    /\ op = "new"
    /\ io.open = "ok"
    /\ Cardinality(DOMAIN repo.crates) = 2
    /\ \E k \in DOMAIN repo.crates : Len(repo.crates[k].release_history) = 2

\* C8: constructing a Repository from a store that is missing, unreadable or
\* malformed does not fail: it yields a live Repository with an empty crates
\* mapping bound to that store, and touches no file.
C8_LoadFailureYieldsEmpty ==
    [][ \A outcome \in SaveOutcomes :
          (/\ op' = "new"
           /\ fs[REPO_STORE].kind \in {"missing", "unreadable", "malformed"}
           /\ Repository_new(REPO_STORE, outcome)) =>
             /\ alive'
             /\ repo'.crates = HashMap_new
             /\ repo'.store = REPO_STORE
             /\ fs' = fs ]_vars

\* A crate was added to a Repository constructed over a store that is still
\* unreadable or malformed.
C8_Witness ==
    /\ alive
    /\ fs[REPO_STORE].kind \in {"unreadable", "malformed"}
    /\ op = "add_crate"
    /\ ret.res = "Ok"
    /\ writes = <<>>

\* C9: add_crate with a name that keys no entry succeeds for any initial
\* version; afterwards find_exact of the name returns a crate with exactly
\* that metadata and the history [initial_version], and every other entry,
\* and the store, is unchanged.
C9_AddCrateFresh ==
    [][ \A metadata \in Metadatas, version \in Versions :
          (/\ op' = "add_crate"
           /\ metadata.name \notin DOMAIN repo.crates
           /\ add_crate(metadata, version)) =>
             /\ ret'.res = "Ok"
             /\ Repository_find_exact(repo', metadata.name)
                   = << [metadata |-> metadata, release_history |-> <<version>>] >>
             /\ DOMAIN repo'.crates = (DOMAIN repo.crates) \cup {metadata.name}
             /\ \A k \in DOMAIN repo.crates : repo'.crates[k] = repo.crates[k]
             /\ repo'.store = repo.store ]_vars

\* A second crate was added.
C9_Witness ==
    /\ alive
    /\ op = "add_crate"
    /\ ret.res = "Ok"
    /\ Cardinality(DOMAIN repo.crates) = 2

\* C10: add_release with a name that keys no entry (compared exactly, case
\* included) returns NotFound for every version and leaves the Repository
\* unchanged.
C10_AddReleaseNotFound ==
    [][ \A name \in Lookups, version \in Versions :
          (/\ op' = "add_release"
           /\ name \notin DOMAIN repo.crates
           /\ add_release(name, version)) =>
             /\ ret'.res = "NotFound"
             /\ repo' = repo ]_vars

\* add_release answered NotFound although a key differs from the name in
\* case only.
C10_Witness ==
    /\ alive
    /\ op = "add_release"
    /\ ret.res = "NotFound"
    /\ <<"b", "A", "b">> \in DOMAIN repo.crates

\* The lower-case form of a letter, and "q occurs in name, case ignored", as
\* the specification states them.
LowerOf(c) == CASE c = "A" -> "a" [] c = "B" -> "b" [] OTHER -> c

OccursIgnoringCase(q, name) ==
    \E i \in 1..(Len(name) - Len(q) + 1) :
        \A j \in 1..Len(q) : LowerOf(name[i + j - 1]) = LowerOf(q[j])

\* C11: find_containing(q) returns, each exactly once and in any order,
\* precisely the crates whose lower-cased name contains the lower-cased q
\* somewhere (all crates for the empty q), and modifies nothing.
C11_FindContaining ==
    [][ \A q \in Queries :
          (/\ op' = "find_containing"
           /\ find_containing(q)) =>
             LET found == ret'.found
                 expected == { k \in DOMAIN repo.crates : OccursIgnoringCase(q, k) }
             IN  /\ Len(found) = Cardinality(expected)
                 /\ { found[i] : i \in 1..Len(found) } = { repo.crates[k] : k \in expected }
                 /\ (q = <<>> => Len(found) = Cardinality(DOMAIN repo.crates))
                 /\ repo' = repo
                 /\ fs' = fs ]_vars

\* A query matched one of two crates: the one with the letter in the middle
\* of its name, in the other case.
C11_Witness ==
    /\ alive
    /\ op = "find_containing"
    /\ Cardinality(DOMAIN repo.crates) = 2
    /\ Len(ret.found) = 1
    /\ ret.found[1].metadata.name = <<"b", "A", "b">>

\* C12: find_exact(name) returns the crate stored under the key equal to name
\* character for character, nothing (and no error) when there is no such
\* key, and modifies nothing.
C12_FindExact ==
    [][ \A name \in Lookups :
          (/\ op' = "find_exact"
           /\ find_exact(name)) =>
             LET same == { k \in DOMAIN repo.crates :
                             /\ Len(k) = Len(name)
                             /\ \A i \in 1..Len(k) : k[i] = name[i] }
             IN  /\ ret'.res = "Ok"
                 /\ same = {} => ret'.found = <<>>
                 /\ \A k \in same : ret'.found = <<repo.crates[k]>>
                 /\ repo' = repo
                 /\ fs' = fs ]_vars

\* find_exact found nothing in a Repository that holds both names: it was
\* asked for a name that differs from a key in case only.
C12_Witness ==
    /\ alive
    /\ op = "find_exact"
    /\ Cardinality(DOMAIN repo.crates) = 2
    /\ ret.found = <<>>

\* C16: a teardown whose save fails (File::create or the write failed) still
\* completes: the Repository is gone, nothing is raised to the owner, the
\* failure is printed to stderr and that is the whole report.
C16_SaveFailureOnlyLogged ==
    [][ \A outcome \in SaveOutcomes \ {"ok"} :
          (/\ op' = "drop"
           /\ drop(outcome)) =>
             /\ ~alive'
             /\ ret'.res = "-"
             /\ stderr' = <<"could not save repository">>
             /\ repo' = repo ]_vars

\* A teardown of a Repository with a crate whose write failed was logged.
C16_Witness ==
    /\ ~alive
    /\ op = "drop"
    /\ io.save = "write_err"
    /\ DOMAIN repo.crates # {}
    /\ stderr = <<"could not save repository">>

\* C17: every key of the crates mapping of a live Repository is a non-empty
\* name: add_crate admits no crate whose metadata.name is empty.
C17_NamesNonEmpty ==
    alive => \A k \in DOMAIN repo.crates : k # <<>>

\* C13: two crates are equal exactly when their names are, whatever else
\* they hold; equal crates hash the same; a set built from two crates of one
\* name has one element (and two elements when the names differ).
C13_CrateIdentityIsName ==
    calc.fn = "Crate_eq" =>
        LET a == calc.input[1]
            b == calc.input[2]
            out == calc.output
            same_name == a.metadata.name = b.metadata.name
        IN  /\ out.eq <=> same_name
            /\ out.eq => out.hash[1] = out.hash[2]
            /\ Cardinality(out.set) = (IF same_name THEN 1 ELSE 2)

\* Two crates of one name that differ in author, kind and history were
\* found equal and collapsed into one element.
C13_Witness ==
    /\ calc.fn = "Crate_eq"
    /\ calc.input[1].metadata.name = calc.input[2].metadata.name
    /\ calc.input[1].metadata.author # calc.input[2].metadata.author
    /\ calc.input[1].metadata.kind # calc.input[2].metadata.kind
    /\ calc.input[1].release_history # calc.input[2].release_history
    /\ calc.output.eq
    /\ Cardinality(calc.output.set) = 1

\* The versions 1.0.0 < 1.0.1 < 1.1.0 < 2.0.0 of the specification.
Chain == <<SemVer_new(1, 0, 0), SemVer_new(1, 0, 1), SemVer_new(1, 1, 0), SemVer_new(2, 0, 0)>>

\* C14: the SemVer comparison is the lexicographic order on (major, minor,
\* patch): exactly one of a<b, a=b, a>b holds, a>b exactly when b<a, it is
\* transitive, equality is that of the three parts, and the chain
\* 1.0.0 < 1.0.1 < 1.1.0 < 2.0.0 is ordered so.
C14_SemVerTotalOrder ==
    calc.fn = "SemVer_cmp" =>
        LET a == calc.input[1]
            b == calc.input[2]
            out == calc.output
        IN  /\ out.ab \in {"Less", "Equal", "Greater"}
            /\ (out.ab = "Less") <=> Precedes(a, b)
            /\ (out.ab = "Greater") <=> Precedes(b, a)
            /\ (out.ab = "Equal") <=> (a = b)
            /\ out.eq <=> (a = b)
            /\ (out.ab = "Less") <=> (out.ba = "Greater")
            /\ (out.ab = "Less" /\ out.bc = "Less") => out.ac = "Less"
            /\ \A i \in 1..3 : (a = Chain[i] /\ b = Chain[i + 1]) => out.ab = "Less"

\* 1.1.0 < 2.0.0 and 1.0.1 < 1.1.0 were compared, and so was 1.0.1 < 2.0.0.
C14_Witness ==
    /\ calc.fn = "SemVer_cmp"
    /\ calc.input = <<Chain[2], Chain[3], Chain[4]>>
    /\ calc.output.ab = "Less"
    /\ calc.output.bc = "Less"
    /\ calc.output.ac = "Less"

\* A segment that is a valid integer in 0..65535: decimal digits, an
\* optional '+' before them, and a value that fits.
RECURSIVE DecimalValue(_)
DecimalValue(d) ==
    IF d = <<>> THEN 0
    ELSE 10 * DecimalValue(SubSeq(d, 1, Len(d) - 1)) + DigitValue(d[Len(d)])

Unsigned(seg) == IF seg # <<>> /\ seg[1] = "+" THEN Tail(seg) ELSE seg

IsU16Text(seg) ==
    /\ Unsigned(seg) # <<>>
    /\ \A i \in 1..Len(Unsigned(seg)) : IsDigit(Unsigned(seg)[i])
    /\ DecimalValue(Unsigned(seg)) <= U16Max

\* C15: every conversion from text to SemVer yields a SemVer only for
\* exactly three segments that are each a valid integer in 0..65535, and
\* then those three numbers; any other text is reported as a parse error,
\* of the wrong part count when there are not three segments and of an
\* invalid integer otherwise.
C15_TextConversions ==
    calc.fn \in {"from_str", "try_from", "from"} =>
        LET segs == calc.input
            out == calc.output
        IN  IF Len(segs) # 3
            THEN out.res = "Err" /\ out.error = "WrongNumberOfParts"
            ELSE IF \A i \in 1..3 : IsU16Text(segs[i])
            THEN out.res = "Ok"
                 /\ out.value = <<SemVer_new(DecimalValue(Unsigned(segs[1])),
                                             DecimalValue(Unsigned(segs[2])),
                                             DecimalValue(Unsigned(segs[3])))>>
            ELSE out.res = "Err" /\ out.error = "ParseInt"

\* C18: the Display rendering of a version with parts in 0..65535 parses
\* back to that version.
C18_DisplayParseRoundTrip ==
    calc.fn = "fmt" =>
        /\ calc.output.parsed.res = "Ok"
        /\ calc.output.parsed.value = <<calc.input>>

\* 65535.0.10 was rendered as "65535.0.10" and parsed back.
C18_Witness ==
    /\ calc.fn = "fmt"
    /\ calc.input = SemVer_new(U16Max, 0, 10)
    /\ calc.output.text = <<"6", "5", "5", "3", "5", ".", "0", ".", "1", "0">>
    /\ calc.output.parsed.value = <<SemVer_new(U16Max, 0, 10)>>

\* A request the server can decode: one of the four variants with all of
\* its arguments.
IsRequest(wire) ==
    /\ wire.readable
    /\ \/ wire.variant \in {"FindExact", "FindAllContaining"}
       \/ wire.variant = "AddCrate" /\ wire.metadata # <<>> /\ wire.version # <<>>
       \/ wire.variant = "AddRelease" /\ wire.version # <<>>

\* The envelope of a Registry result: Ok, or Err(Repo(e)) with its error e.
Enveloped(doc, res) ==
    IF res = "Ok"
    THEN doc.key = "Ok"
    ELSE doc.key = "Err" /\ doc.error = <<"Repo", res>>

\* C19: the server answers a connection with one envelope.  A request that
\* cannot be read or decoded gets Err(Internal) and the Repository is left
\* unchanged; a decoded request is dispatched to the matching operation and
\* answered with Ok(payload) when it succeeds and with Err(Repo(e)), e the
\* operation's error, when it fails, never with Err(Internal).
C19_ServerEnvelope ==
    [][ \A wire \in Wire :
          (/\ pc = "serving"
           /\ response'.request = wire
           /\ \E write_ok \in BOOLEAN : handle(wire, write_ok)) =>
             LET doc == response'.json
             IN  /\ doc.key \in {"Ok", "Err"}
                 /\ fs' = fs
                 /\ IF ~IsRequest(wire)
                    THEN /\ doc.key = "Err"
                         /\ doc.error = <<"Internal">>
                         /\ repo' = repo
                    ELSE /\ doc.error # <<"Internal">>
                         /\ CASE wire.variant = "FindExact" ->
                                   /\ doc.key = "Ok"
                                   /\ doc.payload.items = Repository_find_exact(repo, wire.name)
                                   /\ repo' = repo
                              [] wire.variant = "FindAllContaining" ->
                                   /\ doc.key = "Ok"
                                   /\ \E order \in HashMap_iter(repo.crates) :
                                         doc.payload.items =
                                             Repository_find_containing(repo, wire.name, order)
                                   /\ repo' = repo
                              [] wire.variant = "AddCrate" ->
                                   LET out == Repository_add_crate(repo, wire.metadata[1],
                                                                   wire.version[1])
                                   IN  Enveloped(doc, out.res) /\ repo' = out.repo
                              [] wire.variant = "AddRelease" ->
                                   LET out == Repository_add_release(repo, wire.name,
                                                                     wire.version[1])
                                   IN  Enveloped(doc, out.res) /\ repo' = out.repo ]_vars

\* An AddRelease of an older version was answered Err(Repo(InvalidVersion)).
C19_Witness ==
    /\ pc = "serving"
    /\ response.request.variant = "AddRelease"
    /\ response.json.key = "Err"
    /\ response.json.error = <<"Repo", "InvalidVersion">>
    /\ response.sent

\* C20: once the server process has ended, the store holds every release
\* the server acknowledged: the one of the last AddCrate or AddRelease that
\* was answered Ok is in the Repository a later construction would load.
C20_AckedAddsDurable ==
    (/\ pc = "exited"
     /\ response.sent
     /\ response.json.key = "Ok"
     /\ response.request.variant \in {"AddCrate", "AddRelease"}) =>
        LET doc == fs[REPO_STORE]
            loaded == IF File_open(doc) THEN from_reader(doc) ELSE <<>>
            name == IF response.request.variant = "AddCrate"
                    THEN response.request.metadata[1].name
                    ELSE response.request.name
        IN  /\ loaded # <<>>
            /\ name \in DOMAIN loaded[1].crates
            /\ \E i \in 1..Len(loaded[1].crates[name].release_history) :
                  loaded[1].crates[name].release_history[i] = response.request.version[1]

\* C21: a Repository was constructed from a store that held a snapshot with
\* crates, and the process is then killed: the store still holds them, a
\* construction from it afterwards loads the same crates and histories.
C21_LoadLeavesStore ==
    [][ (/\ op = "new"
         /\ io.open = "ok"
         /\ DOMAIN repo.crates # {}
         /\ kill) =>
           LET doc == fs'[REPO_STORE]
               loaded == IF File_open(doc) THEN from_reader(doc) ELSE <<>>
           IN  /\ loaded # <<>>
               /\ DOMAIN loaded[1].crates = DOMAIN repo.crates
               /\ \A k \in DOMAIN repo.crates :
                     loaded[1].crates[k].release_history = repo.crates[k].release_history ]_vars

\* C22: a Repository constructed with the store location S saves to S at
\* teardown and to no other location, whatever path the snapshot it was
\* loaded from records: a save that succeeds leaves the crates in S and
\* every other location as it was.
C22_TeardownWritesToStore ==
    [][ \A outcome \in SaveOutcomes :
          (/\ op' = "drop"
           /\ drop(outcome)) =>
             /\ \A l \in Locations \ {REPO_STORE} : fs'[l] = fs[l]
             /\ outcome = "ok" =>
                   /\ from_reader(fs'[REPO_STORE]) # <<>>
                   /\ from_reader(fs'[REPO_STORE])[1].crates = repo.crates ]_vars

====
